---- MODULE Spec2Model ----
(***************************************************************************)
(* Expense bot: a chat event (text note or receipt photo) is turned into a *)
(* receipt record by the generation service, enriched with a category and  *)
(* a memo, merged, appended to a spreadsheet and summarised in a chat      *)
(* message.  Sources: bot_main.py, ocr_logic.py, note_processor.py.        *)
(***************************************************************************)
EXTENDS Integers, Sequences, FiniteSets, TLC

\* Number of chat events the model lets the poller deliver.
MaxReq == 2

\* Value of the TELEGRAM_CHAT_ID setting: the chat of the bot's owner.
TELEGRAM_CHAT_ID == 0

Req == 1..MaxReq

\* The chat an update comes from: update 1 is sent from the configured
\* chat, every further update from another chat.
ChatOf(r) == r - 1

(***************************************************************************)
(* JSON values.  Every value is a record [kind, fields]; an object carries *)
(* its members in fields, the other kinds carry none.  Member values are   *)
(* opaque strings.                                                         *)
(***************************************************************************)
NoFields == [k \in {} |-> ""]

JObject(f) == [kind |-> "object", fields |-> f]
JArray     == [kind |-> "array", fields |-> NoFields]
NoValue    == [kind |-> "none", fields |-> NoFields]
\* An exception travelling out of a call.
Raised     == [kind |-> "raise", fields |-> NoFields]

IsDict(v) == v.kind = "object"
Keys(v)   == DOMAIN v.fields

\* dict.get(key, default)
Get(d, key, default) == IF key \in Keys(d) THEN d.fields[key] ELSE default

(***************************************************************************)
(* Response texts are sequences of tokens: whitespace, a ``` fence, the    *)
(* word json, other prose, or one serialized JSON value (the token is the  *)
(* value it serializes).  WS is the whitespace of JSON (space, tab, CR,     *)
(* LF); WSX is any other character str.strip() removes (form feed,         *)
(* vertical tab, no-break space, ...).                                     *)
(***************************************************************************)
WS    == [kind |-> "ws", fields |-> NoFields]
WSX   == [kind |-> "wsx", fields |-> NoFields]
FENCE == [kind |-> "fence", fields |-> NoFields]
JSONW == [kind |-> "jsonword", fields |-> NoFields]
PROSE == [kind |-> "prose", fields |-> NoFields]

IsJsonToken(t) == t.kind \in {"object", "array"}

\* Drop the tokens of the set blank at the left end, at the right end.
RECURSIVE LStrip(_, _)
LStrip(s, blank) ==
  IF s # <<>> /\ Head(s) \in blank THEN LStrip(Tail(s), blank) ELSE s

RECURSIVE RStrip(_, _)
RStrip(s, blank) ==
  IF s # <<>> /\ s[Len(s)] \in blank
  THEN RStrip(SubSeq(s, 1, Len(s) - 1), blank) ELSE s

\* str.strip(): drop every kind of whitespace at both ends.
Strip(s) == RStrip(LStrip(s, {WS, WSX}), {WS, WSX})

\* The whitespace json.loads skips before and after the value.
JsonSkip(s) == RStrip(LStrip(s, {WS}), {WS})

\* str.replace("```json", ""): one pass, left to right, no overlap.
RECURSIVE RemoveFenceJson(_)
RemoveFenceJson(s) ==
  IF Len(s) < 2 THEN s
  ELSE IF s[1] = FENCE /\ s[2] = JSONW
       THEN RemoveFenceJson(SubSeq(s, 3, Len(s)))
       ELSE <<s[1]>> \o RemoveFenceJson(Tail(s))

\* str.replace("```", "")
RemoveFence(s) == SelectSeq(s, LAMBDA t : t # FENCE)

\* A cleaning that removes the bare marker first, which leaves the word json
\* of a ```json marker in the text.
CleanResponse_fence_first(s) == RemoveFenceJson(RemoveFence(Strip(s)))

\* response.text.strip().replace("```json", "").replace("```", "")
CleanResponse(s) == RemoveFence(RemoveFenceJson(Strip(s)))

\* json.loads: one JSON value, whitespace allowed around it; anything else
\* raises.
Loads(s) ==
  LET body == JsonSkip(s)
  IN IF Len(body) = 1 /\ IsJsonToken(body[1]) THEN body[1] ELSE Raised

\* A response of the generation service: the call raises, or returns text.
RaiseResp  == [raises |-> TRUE, text |-> <<>>]
Resp(text) == [raises |-> FALSE, text |-> text]


(***************************************************************************)
(* The pure parts of the program.                                          *)
(***************************************************************************)
\* The fallback of get_receipt_insights.
FallbackInsights ==
  JObject([category |-> "Uncategorized", memo |-> "Could not generate memo."])

\* get_receipt_insights: the generation call, the cleaning and the parse are
\* inside one try; any exception yields the fallback, and a parsed value is
\* returned as it is.
get_receipt_insights(receipt_data, response) ==
  IF response.raises THEN FallbackInsights
  ELSE LET insights == Loads(CleanResponse(response.text))
       IN IF insights = Raised THEN FallbackInsights ELSE insights

\* convert_note_to_receipt: the generation call and json.loads of its text;
\* every exception is re-raised.
convert_note_to_receipt(response) ==
  IF response.raises THEN Raised ELSE Loads(response.text)

\* process_receipt_image: opens the image, calls the generation service and
\* returns the response text unparsed; every exception is re-raised.
process_receipt_image(image_ok, response) ==
  IF ~image_ok \/ response.raises THEN RaiseResp ELSE Resp(response.text)

\* handle_receipt_photo, lines 68-69: the handler decodes the text itself.
ExtractFromPhoto(image_ok, response) ==
  LET extracted_data_json == process_receipt_image(image_ok, response)
  IN IF extracted_data_json.raises THEN Raised
     ELSE Loads(extracted_data_json.text)

\* A merge in which the record's value wins on a shared key.
Merge_record_wins(receipt_data, insights) ==
  IF IsDict(receipt_data) /\ IsDict(insights)
  THEN JObject([k \in Keys(receipt_data) \cup Keys(insights) |->
                  IF k \in Keys(receipt_data) THEN receipt_data.fields[k]
                  ELSE insights.fields[k]])
  ELSE Raised

\* {**receipt_data, **insights}: both operands must be mappings (TypeError
\* otherwise); the right operand wins on a shared key.
Merge(receipt_data, insights) ==
  IF IsDict(receipt_data) /\ IsDict(insights)
  THEN JObject([k \in Keys(receipt_data) \cup Keys(insights) |->
                  IF k \in Keys(insights) THEN insights.fields[k]
                  ELSE receipt_data.fields[k]])
  ELSE Raised

\* A row with the first two columns in the order of the summary message.
RowData_vendor_first(receipt_data) ==
  << Get(receipt_data, "vendor_name", ""),
     Get(receipt_data, "receipt_date", ""),
     Get(receipt_data, "total_amount", ""),
     Get(receipt_data, "category", ""),
     Get(receipt_data, "memo", "") >>

\* log_to_google_sheet, lines 135-141: the row handed to the append call.
RowData(receipt_data) ==
  << Get(receipt_data, "receipt_date", ""),
     Get(receipt_data, "vendor_name", ""),
     Get(receipt_data, "total_amount", ""),
     Get(receipt_data, "category", ""),
     Get(receipt_data, "memo", "") >>

\* send_telegram_message, lines 110-117: the values the summary renders.
FormatMessage(receipt_data) ==
  << "New Receipt Processed!",
     Get(receipt_data, "vendor_name", "N/A"),
     Get(receipt_data, "receipt_date", "N/A"),
     Get(receipt_data, "total_amount", "N/A"),
     Get(receipt_data, "category", "N/A"),
     Get(receipt_data, "memo", "N/A") >>

\* The chat send_telegram_message posts to: the configured one.
SummaryChat(update_chat) == TELEGRAM_CHAT_ID

(***************************************************************************)
(* Responses the generation service may give.                              *)
(***************************************************************************)
FullRecord ==
  JObject([vendor_name |-> "SM Supermarket", receipt_date |-> "2024-03-01",
           total_amount |-> "90", line_items |-> "milk 50, bread 40"])

\* A payload that breaks the schema: total_amount is missing.
NoTotalRecord ==
  JObject([vendor_name |-> "SM Supermarket", receipt_date |-> "2024-03-01"])

ExtractResponses ==
  { RaiseResp, Resp(<<FullRecord>>), Resp(<<NoTotalRecord>>),
    Resp(<<JArray>>), Resp(<<PROSE>>) }

GoodInsights ==
  JObject([category |-> "Food & Dining", memo |-> "Groceries at SM."])
\* An answer outside the instruction: a category that is not in the list, no
\* memo, and a key of the record.
OddInsights ==
  JObject([category |-> "Groceries", vendor_name |-> "Some Other Store"])

EnrichResponses ==
  { RaiseResp,
    Resp(<<GoodInsights>>),
    Resp(<<FENCE, JSONW, WS, GoodInsights, WS, FENCE>>),
    Resp(<<PROSE, WS, GoodInsights>>),
    Resp(<<JArray>>),
    Resp(<<OddInsights>>) }

(***************************************************************************)
(* State.                                                                  *)
(***************************************************************************)
VARIABLES
  update_queue,  \* updates fetched by the poller, not yet handled
  event,         \* per update: kind, update.message set?, empty payload?, chat
  pc,            \* per update: where its handler stands
  receipt_data,  \* per update: the handler's local receipt_data / extracted_data
  insights,      \* per update: the handler's local insights
  final_data,    \* per update: the handler's local final_data
  calls,         \* per update: the collaborator calls that have returned or
                 \* raised so far, in order
  sent,          \* every chat message issued, in order, with the state of
                 \* its send: pending, delivered or failed
  sheet,         \* rows appended to the spreadsheet, in order
  probe          \* a response text given to the enricher on its own, and
                 \* what the enricher returned for it

vars == << update_queue, event, pc, receipt_data, insights, final_data,
           calls, sent, sheet, probe >>

NoProbe ==
  [text |-> <<>>, bare |-> <<>>, out |-> NoValue, out_bare |-> NoValue,
   applied |-> FALSE]

NoEvent ==
  [kind |-> "none", message |-> FALSE, empty |-> TRUE, chat |-> TELEGRAM_CHAT_ID]

\* The updates the registered handlers are called with: a /start command, a
\* text, a photo.  update.message is None for an edited message; the text
\* or the photo list of a message may be empty.
Updates(r) ==
  { [kind |-> kind, message |-> TRUE, empty |-> FALSE, chat |-> ChatOf(r)] :
      kind \in {"command", "text", "photo"} }
  \cup
  { [kind |-> kind, message |-> TRUE, empty |-> TRUE, chat |-> ChatOf(r)] :
      kind \in {"text", "photo"} }
  \cup
  { [kind |-> kind, message |-> FALSE, empty |-> TRUE, chat |-> ChatOf(r)] :
      kind \in {"command", "text", "photo"} }

\* Handler positions in which a handler is running: each is the await the
\* handler is suspended in.
Running ==
  {"welcome_pending", "ack_pending", "downloading", "download_pending",
   "extracting", "enriching", "persisting", "persisted", "notifying",
   "failure_pending"}

Call(op, arg) == [op |-> op, arg |-> arg]
Message(r, chat, kind, body, status) ==
  [req |-> r, chat |-> chat, kind |-> kind, body |-> body, status |-> status]

\* The send the handler of r is suspended in resolves: delivered, or failed.
Resolve(r, ok) ==
  [k \in DOMAIN sent |->
     IF sent[k].req = r /\ sent[k].status = "pending"
     THEN [sent[k] EXCEPT !.status = IF ok THEN "delivered" ELSE "failed"]
     ELSE sent[k]]

WelcomeText ==
  <<"Hello! I'm your multi-function Expense Bot.",
    "Send me a photo of a receipt to process it.",
    "Send me a text note of your purchases to convert it into a receipt.">>
AckText(kind) ==
  IF kind = "text" THEN <<"Note received! Converting to receipt format...">>
  ELSE <<"Receipt photo received! Processing...">>
FailureText(kind) ==
  IF kind = "text"
  THEN <<"Sorry, I couldn't understand that note. Please try formatting it a bit more clearly.">>
  ELSE <<"Sorry, I couldn't process that receipt photo. Please try again.">>

Init ==
  /\ update_queue = <<>>
  /\ event = [r \in Req |-> NoEvent]
  /\ pc = [r \in Req |-> "idle"]
  /\ receipt_data = [r \in Req |-> NoValue]
  /\ insights = [r \in Req |-> NoValue]
  /\ final_data = [r \in Req |-> NoValue]
  /\ calls = [r \in Req |-> <<>>]
  /\ sent = <<>>
  /\ sheet = <<>>
  /\ probe = NoProbe


(***************************************************************************)
(* Dispatch.  main() builds the Application without concurrent_updates, so *)
(* the update fetcher awaits one handler before it takes the next update.  *)
(* Every action below is one run of a handler between two awaits.          *)
(***************************************************************************)
ConcurrentUpdates == FALSE

MayDispatch(r) ==
  /\ update_queue # <<>>
  /\ Head(update_queue) = r
  /\ pc[r] = "queued"
  /\ ConcurrentUpdates \/ \A q \in Req : pc[q] \notin Running

\* The poller fetches an update and queues it for the registered handlers;
\* updates are numbered in the order they are fetched.
Arrive(r) ==
  /\ pc[r] = "idle"
  /\ \A q \in Req : q < r => pc[q] # "idle"
  /\ \E update \in Updates(r) : event' = [event EXCEPT ![r] = update]
  /\ update_queue' = Append(update_queue, r)
  /\ pc' = [pc EXCEPT ![r] = "queued"]
  /\ UNCHANGED << probe, receipt_data, insights, final_data, calls, sent, sheet >>

\* start, up to its await: update.message.reply_text raises AttributeError
\* when update.message is None; otherwise the welcome text is issued.
start(r) ==
  /\ event[r].kind = "command"
  /\ MayDispatch(r)
  /\ update_queue' = Tail(update_queue)
  /\ IF ~event[r].message
     THEN /\ pc' = [pc EXCEPT ![r] = "raised"]
          /\ UNCHANGED sent
     ELSE /\ sent' = Append(sent, Message(r, event[r].chat, "welcome",
                                          WelcomeText, "pending"))
          /\ pc' = [pc EXCEPT ![r] = "welcome_pending"]
  /\ UNCHANGED << probe, event, receipt_data, insights, final_data, calls, sheet >>

\* start, after its await: the handler returns, or the error of the send
\* leaves it.
start_replied(r) ==
  /\ pc[r] = "welcome_pending"
  /\ \E ok \in BOOLEAN :
       /\ sent' = Resolve(r, ok)
       /\ pc' = [pc EXCEPT ![r] = IF ok THEN "welcomed" ELSE "welcome_raised"]
  /\ calls' = [calls EXCEPT ![r] = Append(@, Call("reply_welcome", NoValue))]
  /\ UNCHANGED << probe, update_queue, event, receipt_data, insights, final_data, sheet >>

\* The except clause of a handler: the generic failure message is issued
\* with update.message.reply_text and the handler is suspended in that send.
Except(r, done) ==
  /\ calls' = [calls EXCEPT ![r] = @ \o done]
  /\ sent' = Append(sent, Message(r, event[r].chat, "failure",
                                  FailureText(event[r].kind), "pending"))
  /\ pc' = [pc EXCEPT ![r] = "failure_pending"]

\* The send of the failure message resolves: the handler ends, or the error
\* of the send leaves it.
FailureReplied(r) ==
  /\ pc[r] = "failure_pending"
  /\ \E send_ok \in BOOLEAN :
       /\ sent' = Resolve(r, send_ok)
       /\ pc' = [pc EXCEPT ![r] = IF send_ok THEN "error" ELSE "error_raised"]
  /\ calls' = [calls EXCEPT ![r] = Append(@, Call("reply_failure", NoValue))]
  /\ UNCHANGED << probe, update_queue, event, receipt_data, insights, final_data, sheet >>

\* A handler that begins its work without the acknowledgement.
Acknowledge_skipped(r) ==
  /\ MayDispatch(r)
  /\ update_queue' = Tail(update_queue)
  /\ pc' = [pc EXCEPT ![r] = IF ~event[r].message THEN "raised"
                             ELSE IF event[r].empty THEN "returned"
                             ELSE IF event[r].kind = "text" THEN "extracting"
                             ELSE "downloading"]
  /\ UNCHANGED << probe, event, receipt_data, insights, final_data, sheet, calls, sent >>

\* What opens both handlers: update.message.text / .photo raises
\* AttributeError when update.message is None; nothing is done for an empty
\* payload; otherwise the acknowledgement is issued and the handler is
\* suspended in that send.
Acknowledge(r) ==
  /\ MayDispatch(r)
  /\ update_queue' = Tail(update_queue)
  /\ IF ~event[r].message
     THEN /\ pc' = [pc EXCEPT ![r] = "raised"]
          /\ UNCHANGED sent
     ELSE IF event[r].empty
     THEN /\ pc' = [pc EXCEPT ![r] = "returned"]
          /\ UNCHANGED sent
     ELSE /\ sent' = Append(sent, Message(r, event[r].chat, "ack",
                                          AckText(event[r].kind), "pending"))
          /\ pc' = [pc EXCEPT ![r] = "ack_pending"]
  /\ UNCHANGED << probe, event, receipt_data, insights, final_data, sheet, calls >>

\* handle_note up to the await of its acknowledgement.
handle_note_start(r) ==
  /\ event[r].kind = "text"
  /\ Acknowledge(r)

\* handle_receipt_photo up to the await of its acknowledgement.
handle_receipt_photo_start(r) ==
  /\ event[r].kind = "photo"
  /\ Acknowledge(r)

\* A handler whose acknowledgement sits inside the try: a failed send goes
\* to the except clause.
Acknowledged_in_try(r, next) ==
  /\ pc[r] = "ack_pending"
  /\ \E ack_ok \in BOOLEAN :
       IF ack_ok
       THEN /\ calls' = [calls EXCEPT ![r] = Append(@, Call("reply_ack", NoValue))]
            /\ sent' = Resolve(r, TRUE)
            /\ pc' = [pc EXCEPT ![r] = next]
       ELSE /\ calls' = [calls EXCEPT ![r] = Append(@, Call("reply_ack", NoValue))]
            /\ sent' = Append(Resolve(r, FALSE),
                              Message(r, event[r].chat, "failure",
                                      FailureText(event[r].kind), "pending"))
            /\ pc' = [pc EXCEPT ![r] = "failure_pending"]
  /\ UNCHANGED << probe, update_queue, event, receipt_data, insights, final_data, sheet >>

\* The acknowledgement send resolves: the handler enters its try and runs to
\* the first await there, or the error of the send leaves the handler.
Acknowledged(r, next) ==
  /\ pc[r] = "ack_pending"
  /\ \E ack_ok \in BOOLEAN :
       /\ sent' = Resolve(r, ack_ok)
       /\ pc' = [pc EXCEPT ![r] = IF ack_ok THEN next ELSE "ack_raised"]
  /\ calls' = [calls EXCEPT ![r] = Append(@, Call("reply_ack", NoValue))]
  /\ UNCHANGED << probe, update_queue, event, receipt_data, insights, final_data, sheet >>

\* handle_note from its acknowledgement to the generation call of
\* convert_note_to_receipt.
handle_note_acknowledged(r) ==
  /\ event[r].kind = "text"
  /\ Acknowledged(r, "extracting")

\* handle_receipt_photo from its acknowledgement to get_file.
handle_receipt_photo_acknowledged(r) ==
  /\ event[r].kind = "photo"
  /\ Acknowledged(r, "downloading")

\* handle_receipt_photo: get_file resolves; the handler goes on to
\* download_to_memory.
handle_receipt_photo_get_file(r) ==
  /\ pc[r] = "downloading"
  /\ \E ok \in BOOLEAN :
       IF ok
       THEN /\ calls' = [calls EXCEPT ![r] = Append(@, Call("get_file", NoValue))]
            /\ pc' = [pc EXCEPT ![r] = "download_pending"]
            /\ UNCHANGED sent
       ELSE Except(r, <<Call("get_file", NoValue)>>)
  /\ UNCHANGED << probe, update_queue, event, receipt_data, insights, final_data, sheet >>

\* handle_receipt_photo: download_to_memory resolves; process_receipt_image
\* opens the image, which raises for bytes that are no image, and makes its
\* generation call.
handle_receipt_photo_download(r) ==
  /\ pc[r] = "download_pending"
  /\ \E ok \in BOOLEAN, image_ok \in BOOLEAN :
       IF ok /\ \E response \in ExtractResponses :
                  process_receipt_image(image_ok, response) # Raised
       THEN /\ calls' = [calls EXCEPT ![r] = Append(@, Call("download_to_memory", NoValue))]
            /\ pc' = [pc EXCEPT ![r] = "extracting"]
            /\ UNCHANGED sent
       ELSE Except(r, <<Call("download_to_memory", NoValue)>>)
  /\ UNCHANGED << probe, update_queue, event, receipt_data, insights, final_data, sheet >>

\* An extraction step that swallows its exception and carries on.
Extracted_swallowed(r, generate_calls, record) ==
  /\ calls' = [calls EXCEPT ![r] = @ \o generate_calls]
  /\ receipt_data' = [receipt_data EXCEPT
                        ![r] = IF record = Raised THEN @ ELSE record]
  /\ pc' = [pc EXCEPT ![r] = "enriching"]
  /\ UNCHANGED << probe, update_queue, event, insights, final_data, sheet, sent >>

\* What the extraction step leaves behind: the record, with the handler
\* suspended in the enricher's generation call, or the except clause.
Extracted(r, generate_calls, record) ==
  /\ IF record = Raised
     THEN /\ Except(r, generate_calls)
          /\ UNCHANGED receipt_data
     ELSE /\ calls' = [calls EXCEPT ![r] = @ \o generate_calls]
          /\ receipt_data' = [receipt_data EXCEPT ![r] = record]
          /\ pc' = [pc EXCEPT ![r] = "enriching"]
          /\ UNCHANGED sent
  /\ UNCHANGED << probe, update_queue, event, insights, final_data, sheet >>

\* An extractor that calls the generation service a second time after a
\* failed attempt.
handle_note_extract_retry(r) ==
  /\ pc[r] = "extracting"
  /\ event[r].kind = "text"
  /\ \E response \in ExtractResponses, second \in ExtractResponses :
       IF convert_note_to_receipt(response) = Raised
       THEN Extracted(r, <<Call("generate_extract", NoValue),
                          Call("generate_extract", NoValue)>>,
                      convert_note_to_receipt(second))
       ELSE Extracted(r, <<Call("generate_extract", NoValue)>>,
                      convert_note_to_receipt(response))

\* handle_note, step 1: the generation call of convert_note_to_receipt
\* resolves.
handle_note_extract(r) ==
  /\ pc[r] = "extracting"
  /\ event[r].kind = "text"
  /\ \E response \in ExtractResponses :
       Extracted(r, <<Call("generate_extract", NoValue)>>,
                 convert_note_to_receipt(response))

\* handle_receipt_photo, step 1: the generation call of process_receipt_image
\* resolves and the handler decodes the text.
handle_receipt_photo_extract(r) ==
  /\ pc[r] = "extracting"
  /\ event[r].kind = "photo"
  /\ \E response \in ExtractResponses :
       Extracted(r, <<Call("generate_extract", NoValue)>>,
                 ExtractFromPhoto(TRUE, response))

\* A handler that keeps final_data in one module-level variable, which
\* every request overwrites.
Enrich_shared(r) ==
  /\ pc[r] = "enriching"
  /\ \E response \in EnrichResponses :
       LET result == get_receipt_insights(receipt_data[r], response)
           merged == Merge(receipt_data[r], result)
           done   == <<Call("generate_insights", receipt_data[r])>>
       IN /\ insights' = [insights EXCEPT ![r] = result]
          /\ IF merged = Raised
             THEN /\ Except(r, done)
                  /\ UNCHANGED final_data
             ELSE /\ calls' = [calls EXCEPT ![r] = @ \o done]
                  /\ final_data' = [q \in Req |-> merged]
                  /\ pc' = [pc EXCEPT ![r] = "persisting"]
                  /\ UNCHANGED sent
  /\ UNCHANGED << probe, update_queue, event, receipt_data, sheet >>

\* Step 2 of both handlers: the enricher's generation call resolves, the
\* enricher returns, the handler merges and hands log_to_google_sheet to
\* the executor.
Enrich(r) ==
  /\ pc[r] = "enriching"
  /\ \E response \in EnrichResponses :
       LET result == get_receipt_insights(receipt_data[r], response)
           merged == Merge(receipt_data[r], result)
           done   == <<Call("generate_insights", receipt_data[r])>>
       IN /\ insights' = [insights EXCEPT ![r] = result]
          /\ IF merged = Raised
             THEN /\ Except(r, done)
                  /\ UNCHANGED final_data
             ELSE /\ calls' = [calls EXCEPT ![r] = @ \o done]
                  /\ final_data' = [final_data EXCEPT ![r] = merged]
                  /\ pc' = [pc EXCEPT ![r] = "persisting"]
                  /\ UNCHANGED sent
  /\ UNCHANGED << probe, update_queue, event, receipt_data, sheet >>

\* Outcomes of log_to_google_sheet: the row lands, or something inside its
\* try raises (credentials, service, the append call) and no row lands.
SheetOutcomes == {"ok", "error"}

\* A log_to_google_sheet whose exception reaches the handler.
Persist_propagates(r) ==
  /\ pc[r] = "persisting"
  /\ \E outcome \in SheetOutcomes :
       IF outcome = "ok"
       THEN /\ sheet' = Append(sheet, [req |-> r, row |-> RowData(final_data[r])])
            /\ calls' = [calls EXCEPT ![r] = Append(@, Call("log_to_google_sheet", final_data[r]))]
            /\ pc' = [pc EXCEPT ![r] = "persisted"]
            /\ UNCHANGED sent
       ELSE /\ Except(r, <<Call("log_to_google_sheet", final_data[r])>>)
            /\ UNCHANGED sheet
  /\ UNCHANGED << probe, update_queue, event, receipt_data, insights, final_data >>

\* A log_to_google_sheet that raises to the handler after the row has
\* landed.
Persist_raises_after_append(r) ==
  /\ pc[r] = "persisting"
  /\ \E outcome \in SheetOutcomes :
       IF outcome = "ok"
       THEN /\ sheet' = Append(sheet, [req |-> r, row |-> RowData(final_data[r])])
            /\ Except(r, <<Call("log_to_google_sheet", final_data[r])>>)
       ELSE /\ sheet' = sheet
            /\ calls' = [calls EXCEPT ![r] = Append(@, Call("log_to_google_sheet", final_data[r]))]
            /\ pc' = [pc EXCEPT ![r] = "persisted"]
            /\ UNCHANGED sent
  /\ UNCHANGED << probe, update_queue, event, receipt_data, insights, final_data >>

\* Step 3 of both handlers: log_to_google_sheet runs in the default
\* executor while the handler is suspended; it swallows every exception.
Persist(r) ==
  /\ pc[r] = "persisting"
  /\ \E outcome \in SheetOutcomes :
       sheet' = IF outcome = "ok"
                THEN Append(sheet, [req |-> r, row |-> RowData(final_data[r])])
                ELSE sheet
  /\ calls' = [calls EXCEPT ![r] = Append(@, Call("log_to_google_sheet", final_data[r]))]
  /\ pc' = [pc EXCEPT ![r] = "persisted"]
  /\ UNCHANGED << probe, update_queue, event, receipt_data, insights, final_data, sent >>

\* The executor's future resolves: the handler resumes, calls
\* send_telegram_message, which issues the summary to the configured chat.
Persisted(r) ==
  /\ pc[r] = "persisted"
  /\ sent' = Append(sent, Message(r, SummaryChat(event[r].chat), "summary",
                                  FormatMessage(final_data[r]), "pending"))
  /\ pc' = [pc EXCEPT ![r] = "notifying"]
  /\ UNCHANGED << probe, update_queue, event, receipt_data, insights, final_data,
                  calls, sheet >>

\* A handler that sends the summary without waiting for the append.
Notify_early(r) ==
  /\ pc[r] \in {"persisting", "notifying"}
  /\ \E send_ok \in BOOLEAN :
       sent' = IF pc[r] = "notifying" THEN Resolve(r, send_ok)
               ELSE Append(sent, Message(r, SummaryChat(event[r].chat), "summary",
                                         FormatMessage(final_data[r]),
                                         IF send_ok THEN "delivered" ELSE "failed"))
  /\ calls' = [calls EXCEPT ![r] = Append(@, Call("send_telegram_message", final_data[r]))]
  /\ pc' = [pc EXCEPT ![r] = "done"]
  /\ UNCHANGED << probe, update_queue, event, receipt_data, insights, final_data, sheet >>

\* A send_telegram_message whose exception reaches the handler.
Notify_propagates(r) ==
  /\ pc[r] = "notifying"
  /\ \E send_ok \in BOOLEAN :
       IF send_ok
       THEN /\ sent' = Resolve(r, TRUE)
            /\ calls' = [calls EXCEPT ![r] = Append(@, Call("send_telegram_message", final_data[r]))]
            /\ pc' = [pc EXCEPT ![r] = "done"]
       ELSE /\ calls' = [calls EXCEPT ![r] = Append(@, Call("send_telegram_message", final_data[r]))]
            /\ sent' = Append(Resolve(r, FALSE),
                              Message(r, event[r].chat, "failure",
                                      FailureText(event[r].kind), "pending"))
            /\ pc' = [pc EXCEPT ![r] = "failure_pending"]
  /\ UNCHANGED << probe, update_queue, event, receipt_data, insights, final_data, sheet >>

\* Step 4 of both handlers: the send of send_telegram_message resolves; it
\* swallows every exception, and the handler ends.
Notify(r) ==
  /\ pc[r] = "notifying"
  /\ \E send_ok \in BOOLEAN : sent' = Resolve(r, send_ok)
  /\ calls' = [calls EXCEPT ![r] = Append(@, Call("send_telegram_message", final_data[r]))]
  /\ pc' = [pc EXCEPT ![r] = "done"]
  /\ UNCHANGED << probe, update_queue, event, receipt_data, insights, final_data, sheet >>

Next ==
  \E r \in Req :
    \/ Arrive(r)
    \/ start(r)
    \/ start_replied(r)
    \/ handle_note_start(r)
    \/ handle_note_acknowledged(r)
    \/ handle_receipt_photo_start(r)
    \/ handle_receipt_photo_acknowledged(r)
    \/ handle_receipt_photo_get_file(r)
    \/ handle_receipt_photo_download(r)
    \/ handle_note_extract(r)
    \/ handle_receipt_photo_extract(r)
    \/ Enrich(r)
    \/ Persist(r)
    \/ Persisted(r)
    \/ Notify(r)
    \/ FailureReplied(r)

Spec == Init /\ [][Next]_vars

TypeOK ==
  /\ \A r \in Req : pc[r] \in {"idle", "queued", "raised", "returned",
                                "welcomed", "welcome_raised", "ack_raised",
                                "error", "error_raised", "done"} \cup Running
  /\ \A k \in DOMAIN sent : sent[k].status \in {"pending", "delivered", "failed"}
  /\ Len(sheet) <= MaxReq


(***************************************************************************)
(* The enricher on its own: a serialized {category, memo} object wrapped   *)
(* in whitespace and code-fence markers is given to get_receipt_insights,  *)
(* next to the bare object.                                                *)
(***************************************************************************)
\* Longest wrapper, in pieces, on each side of the object.
MaxWrap == 2

\* What a wrapper is made of: whitespace of both kinds, ``` and ```json.
WrapPieces == { <<WS>>, <<WSX>>, <<FENCE>>, <<FENCE, JSONW>> }

RECURSIVE Wrappers(_)
Wrappers(n) ==
  IF n = 0 THEN { <<>> }
  ELSE Wrappers(n - 1) \cup
       { w \o p : w \in Wrappers(n - 1), p \in WrapPieces }

TaxiInsights ==
  JObject([category |-> "Transportation", memo |-> "Taxi to the airport."])

ProbePayloads == { GoodInsights, TaxiInsights }

InitEnricher ==
  /\ update_queue = <<>>
  /\ event = [r \in Req |-> NoEvent]
  /\ pc = [r \in Req |-> "idle"]
  /\ receipt_data = [r \in Req |-> NoValue]
  /\ insights = [r \in Req |-> NoValue]
  /\ final_data = [r \in Req |-> NoValue]
  /\ calls = [r \in Req |-> <<>>]
  /\ sent = <<>>
  /\ sheet = <<>>
  /\ \E before \in Wrappers(MaxWrap), after \in Wrappers(MaxWrap),
        payload \in ProbePayloads :
       probe = [text |-> before \o <<payload>> \o after,
                bare |-> <<payload>>,
                out |-> NoValue, out_bare |-> NoValue, applied |-> FALSE]

\* get_receipt_insights on the wrapped text and on the bare object.
EnrichProbe ==
  /\ ~probe.applied
  /\ probe' = [probe EXCEPT
                 !.out = get_receipt_insights(FullRecord, Resp(probe.text)),
                 !.out_bare = get_receipt_insights(FullRecord, Resp(probe.bare)),
                 !.applied = TRUE]
  /\ UNCHANGED << update_queue, event, pc, receipt_data, insights, final_data,
                  calls, sent, sheet >>

NextEnricher == EnrichProbe

SpecEnricher == InitEnricher /\ [][NextEnricher]_vars

(***************************************************************************)
(* Observations used by the properties.                                    *)
(***************************************************************************)
ErrorStates == {"error", "error_raised"}

\* Positions in and after the except clause.
FailureStates == {"failure_pending"} \cup ErrorStates

\* Positions after the extraction step.
PastExtracting ==
  {"enriching", "persisting", "persisted", "notifying", "done"} \cup FailureStates

SentOf(r, kind) == SelectSeq(sent, LAMBDA m : m.req = r /\ m.kind = kind)
RowsOf(r)       == SelectSeq(sheet, LAMBDA s : s.req = r)
CallsOf(r, op)  == SelectSeq(calls[r], LAMBDA c : c.op = op)

\* A message of the kind was issued for r; a call of r to op has returned or
\* raised; r has a row.
Issued(r, kind) == \E k \in DOMAIN sent : sent[k].req = r /\ sent[k].kind = kind
Called(r, op)   == \E i \in DOMAIN calls[r] : calls[r][i].op = op
HasRow(r)       == \E k \in DOMAIN sheet : sheet[k].req = r

\* The try block was left during extraction: no record was returned.
ExtractionFailed(r) == pc[r] \in PastExtracting /\ receipt_data[r] = NoValue

\* The extraction step returned a value to the handler.
ExtractionReturned(r) == receipt_data[r] # NoValue

\* The required members of the receipt schema.
RequiredKeys == {"vendor_name", "receipt_date", "total_amount"}
ConformsToSchema(v) == IsDict(v) /\ RequiredKeys \subseteq Keys(v)

\* log_to_google_sheet was called and no row landed.
PersistenceFailed(r) ==
  Called(r, "log_to_google_sheet") /\ ~HasRow(r)

(***************************************************************************)
(* Properties.                                                             *)
(***************************************************************************)

\* C1: when the extraction step fails, the request ends in ERROR: the generic
\* failure message is issued exactly once, to the requester, and the request
\* has no enricher call, no spreadsheet call or row and no result summary.
C1_ExtractionFailureAborts ==
  \A r \in Req :
    ExtractionFailed(r) =>
      /\ pc[r] \in FailureStates
      /\ Len(SentOf(r, "failure")) = 1
      /\ SentOf(r, "failure")[1].chat = event[r].chat
      /\ SentOf(r, "failure")[1].body = FailureText(event[r].kind)
      /\ ~Called(r, "generate_insights")
      /\ ~Called(r, "log_to_google_sheet")
      /\ ~HasRow(r)
      /\ ~Issued(r, "summary")

\* C1 witness: a note and a photo whose generation call was made and failed.
C1_Witness ==
  \E r, q \in Req :
    /\ event[r].kind = "text" /\ event[q].kind = "photo"
    /\ ExtractionFailed(r) /\ ExtractionFailed(q)
    /\ pc[r] \in ErrorStates /\ pc[q] \in ErrorStates
    /\ Called(r, "generate_extract")
    /\ Called(q, "generate_extract")

\* C2 (as claimed): once extraction has returned a record that meets the
\* schema, the generic failure message is never sent and the handler never
\* ends in ERROR.
C2_ErrorOnlyFromExtracting ==
  \A r \in Req :
    (ExtractionReturned(r) /\ ConformsToSchema(receipt_data[r])) =>
      /\ pc[r] \notin FailureStates
      /\ ~Issued(r, "failure")

\* C3: when log_to_google_sheet fails, the handler goes on to the
\* notification, and once it has ended send_telegram_message was called
\* exactly once, with the FinalRecord that was handed to log_to_google_sheet,
\* and the summary renders that record.
\* From the failed append the handler's next step is the summary send.
C3_NotifyAfterPersistenceFailure ==
  /\ [](\A r \in Req :
        PersistenceFailed(r) =>
          /\ pc[r] \in {"persisted", "notifying", "done"}
          /\ ~Issued(r, "failure")
          /\ Len(CallsOf(r, "log_to_google_sheet")) = 1
          /\ pc[r] = "persisted" => ~Issued(r, "summary")
          /\ pc[r] # "done" => ~Called(r, "send_telegram_message")
          /\ pc[r] = "done" =>
               /\ Len(CallsOf(r, "send_telegram_message")) = 1
               /\ CallsOf(r, "send_telegram_message")[1].arg
                    = CallsOf(r, "log_to_google_sheet")[1].arg
               /\ Len(SentOf(r, "summary")) = 1
               /\ SentOf(r, "summary")[1].body
                    = FormatMessage(CallsOf(r, "log_to_google_sheet")[1].arg))
  /\ [][\A r \in Req :
          (PersistenceFailed(r) /\ pc[r] = "persisted") =>
            pc'[r] \in {"persisted", "notifying"}]_vars

\* C3 witness: a finished request whose spreadsheet call failed.
C3_Witness ==
  \E r \in Req : pc[r] = "done" /\ PersistenceFailed(r)

\* C4 (as claimed): when the enricher fell back to its fixed pair, the
\* request goes on to persistence and notification with a FinalRecord that
\* carries the fallback values.
C4_FallbackStillPersistsAndNotifies ==
  \A r \in Req :
    insights[r] = FallbackInsights =>
      /\ pc[r] \in {"persisting", "persisted", "notifying", "done"}
      /\ Get(final_data[r], "category", "") = "Uncategorized"
      /\ Get(final_data[r], "memo", "") = "Could not generate memo."
      /\ pc[r] = "done" =>
           /\ Len(CallsOf(r, "log_to_google_sheet")) = 1
           /\ Len(CallsOf(r, "send_telegram_message")) = 1

\* C5 (as claimed): whatever the generation service answers, the enricher
\* returns a mapping that holds both a category and a memo.
C5_InsightsWellFormed ==
  \A r \in Req :
    insights[r] # NoValue =>
      /\ IsDict(insights[r])
      /\ {"category", "memo"} \subseteq Keys(insights[r])

\* C6 (as claimed): every appended row comes from a record in which
\* vendor_name, receipt_date and total_amount are all present.
C6_RowsOnlyFromConformingRecords ==
  \A r \in Req :
    HasRow(r) => ConformsToSchema(receipt_data[r])

\* C7: in every request, the acknowledgement send is issued before the photo
\* download and before the extractor's generation call.
C7_AckBeforeExtraction ==
  \A r \in Req :
    \A i \in DOMAIN calls[r] :
      calls[r][i].op \in {"get_file", "generate_extract"} =>
        /\ \E j \in 1..(i - 1) : calls[r][j].op = "reply_ack"
        /\ \E k \in DOMAIN sent :
             /\ sent[k].req = r /\ sent[k].kind = "ack"
             /\ sent[k].chat = event[r].chat

\* C7 witness: a note and a photo that reached the extractor.
C7_Witness ==
  \E r, q \in Req :
    /\ event[r].kind = "text" /\ Called(r, "generate_extract")
    /\ event[q].kind = "photo" /\ Called(q, "get_file")
    /\ Called(q, "generate_extract")

\* C8 (as claimed): every result summary goes to the chat of the request it
\* belongs to.
C8_SummaryToRequester ==
  \A k \in DOMAIN sent :
    sent[k].kind = "summary" => sent[k].chat = event[sent[k].req].chat

\* C9: every appended row has five values, the FinalRecord's receipt_date,
\* vendor_name, total_amount, category and memo in that order, the empty
\* string standing for an absent field.
C9_RowLayout ==
  \A k \in DOMAIN sheet :
    LET row == sheet[k].row
        fd  == final_data[sheet[k].req]
        Col(key) == IF key \in DOMAIN fd.fields THEN fd.fields[key] ELSE ""
    IN /\ Len(row) = 5
       /\ row[1] = Col("receipt_date")
       /\ row[2] = Col("vendor_name")
       /\ row[3] = Col("total_amount")
       /\ row[4] = Col("category")
       /\ row[5] = Col("memo")

\* C9 witness: a row with every column filled and a row with an absent field.
C9_Witness ==
  \E j, k \in DOMAIN sheet :
    /\ \A i \in 1..5 : sheet[j].row[i] # ""
    /\ sheet[j].row[1] # sheet[j].row[2]
    /\ \E i \in 1..5 : sheet[k].row[i] = ""

\* C10 (as claimed): in every FinalRecord handed to the spreadsheet or to the
\* notification, the fields of the record have the values the extractor
\* returned (stated for the records that meet the schema).
C10_RecordFieldsSurviveMerge ==
  \A r \in Req :
    \A i \in DOMAIN calls[r] :
      ( /\ calls[r][i].op \in {"log_to_google_sheet", "send_telegram_message"}
        /\ ConformsToSchema(receipt_data[r]) ) =>
        \A key \in {"vendor_name", "receipt_date", "total_amount", "line_items"} :
          key \in Keys(receipt_data[r]) =>
            Get(calls[r][i].arg, key, "") = receipt_data[r].fields[key]

\* C11: the FinalRecord built by the merge holds every key of the record and
\* every key of the insights, with the insight value for a key of both and
\* the record's value otherwise; the record is still the value the enricher
\* was called with, and record and insights are still the values the
\* extractor and the enricher returned.
C11_MergePrecedence ==
  \A r \in Req :
    final_data[r] # NoValue =>
      /\ IsDict(final_data[r])
      /\ Keys(final_data[r]) = Keys(receipt_data[r]) \cup Keys(insights[r])
      /\ \A k \in Keys(insights[r]) :
           final_data[r].fields[k] = insights[r].fields[k]
      /\ \A k \in Keys(receipt_data[r]) \ Keys(insights[r]) :
           final_data[r].fields[k] = receipt_data[r].fields[k]
      /\ CallsOf(r, "generate_insights")[1].arg = receipt_data[r]
      /\ receipt_data[r] \in {FullRecord, NoTotalRecord}
      /\ insights[r] \in {FallbackInsights, GoodInsights, OddInsights}

\* C11 witness: a FinalRecord merged from a record and insights that share a
\* key with different values.
C11_Witness ==
  \E r \in Req :
    /\ final_data[r] # NoValue
    /\ \E k \in Keys(receipt_data[r]) \cap Keys(insights[r]) :
         receipt_data[r].fields[k] # insights[r].fields[k]

\* The categories the enricher's prompt lists, and the fallback's sentinel.
CategoryVocabulary ==
  {"Food & Dining", "Travel", "Office Supplies", "Transportation",
   "Utilities", "Other"}

\* C12 (as claimed): the category of every FinalRecord handed to the
\* spreadsheet or to the notification is one of the listed categories or
\* Uncategorized (stated for the records that meet the schema).
C12_CategoryInVocabulary ==
  \A r \in Req :
    \A i \in DOMAIN calls[r] :
      ( /\ calls[r][i].op \in {"log_to_google_sheet", "send_telegram_message"}
        /\ ConformsToSchema(receipt_data[r]) ) =>
        /\ "category" \in Keys(calls[r][i].arg)
        /\ calls[r][i].arg.fields["category"]
             \in CategoryVocabulary \cup {"Uncategorized"}

\* Everything that belongs to one request: its handler's position and
\* locals, its calls, the messages issued for it and its rows.
MessagesOf(r) == SelectSeq(sent, LAMBDA m : m.req = r)
RequestView(r) ==
  << pc[r], event[r], receipt_data[r], insights[r], final_data[r], calls[r],
     MessagesOf(r), RowsOf(r) >>

\* The row and the summary of a request are computed from its own
\* FinalRecord.
OwnOutputs ==
  \A r \in Req :
    /\ \A k \in DOMAIN sheet :
         sheet[k].req = r => sheet[k].row = RowData(final_data[r])
    /\ \A k \in DOMAIN sent :
         (sent[k].req = r /\ sent[k].kind = "summary") =>
           sent[k].body = FormatMessage(final_data[r])

\* C13: requests share no mutable state: a step of one request (a collaborator
\* answer, a failure, a completion) changes nothing that belongs to another
\* request, and each request's row and reply come from its own FinalRecord.
C13_RequestsIsolated ==
  /\ []OwnOutputs
  /\ [][Cardinality({r \in Req : RequestView(r)' # RequestView(r)}) <= 1]_vars

\* C13 witness: one request has ended in ERROR and another, received while
\* others were pending, has its row appended and is still running.
C13_Witness ==
  \E r, q \in Req :
    /\ r # q
    /\ pc[r] \in ErrorStates
    /\ pc[q] = "notifying" /\ HasRow(q)

\* C14 (as claimed): while a request is suspended in its spreadsheet append,
\* the handler of the next received update can start.
C14_IntakeNotBlocked ==
  \A r, q \in Req :
    ( /\ pc[r] = "persisting"
      /\ pc[q] = "queued"
      /\ update_queue # <<>> /\ Head(update_queue) = q ) =>
      ENABLED (start(q) \/ handle_note_start(q) \/ handle_receipt_photo_start(q))

\* The enrich, persist and notify calls of a request, in the order made.
PipelineOps(r) ==
  LET steps == SelectSeq(calls[r], LAMBDA c :
                 c.op \in {"generate_insights", "log_to_google_sheet",
                           "send_telegram_message"})
  IN [i \in 1..Len(steps) |-> steps[i].op]

PipelineOrder ==
  <<"generate_insights", "log_to_google_sheet", "send_telegram_message">>

\* C15: for a request whose merge produced a FinalRecord, the calls are made
\* in the order enrich, persist, notify, each once: the summary is sent only
\* after log_to_google_sheet has returned, and the request has at most one
\* row and one summary.
\* The calls of a request are only ever added to.
C15_EnrichPersistNotifyOnce ==
  /\ [](\A r \in Req :
        final_data[r] # NoValue =>
          /\ Len(PipelineOps(r)) <= 3
          /\ PipelineOps(r) = SubSeq(PipelineOrder, 1, Len(PipelineOps(r)))
          /\ Len(RowsOf(r)) <= 1
          /\ Len(SentOf(r, "summary")) <= 1
          /\ HasRow(r) => Called(r, "log_to_google_sheet")
          /\ Issued(r, "summary") => Called(r, "log_to_google_sheet")
          /\ pc[r] = "persisting" => Len(PipelineOps(r)) = 1
          /\ pc[r] \in {"persisted", "notifying"} => Len(PipelineOps(r)) = 2
          /\ pc[r] \in {"persisting", "persisted"} => ~Issued(r, "summary")
          /\ pc[r] = "done" => Len(PipelineOps(r)) = 3)
  /\ [][\A r \in Req :
          Len(calls'[r]) >= Len(calls[r])
            /\ SubSeq(calls'[r], 1, Len(calls[r])) = calls[r]]_vars

\* C15 witness: a finished request with its row and its summary.
C15_Witness ==
  \E r \in Req :
    /\ pc[r] = "done"
    /\ Len(RowsOf(r)) = 1
    /\ Len(SentOf(r, "summary")) = 1

\* C16: the extractor calls the generation service at most once per request,
\* and a failed attempt goes to the handler's except clause without another
\* attempt.
C16_SingleExtractionAttempt ==
  \A r \in Req :
    /\ Len(CallsOf(r, "generate_extract")) <= 1
    /\ ExtractionFailed(r) => pc[r] \in FailureStates

\* C16 witness: a note and a photo whose single generation call failed.
C16_Witness ==
  \E r, q \in Req :
    /\ event[r].kind = "text" /\ event[q].kind = "photo"
    /\ ExtractionFailed(r) /\ Len(CallsOf(r, "generate_extract")) = 1
    /\ ExtractionFailed(q) /\ Len(CallsOf(q, "generate_extract")) = 1
    /\ pc[r] = "error" /\ pc[q] = "error"

\* The summary send of the request failed.
SummaryFailed(r) ==
  \E k \in DOMAIN sent :
    sent[k].req = r /\ sent[k].kind = "summary" /\ sent[k].status = "failed"

\* C17: when the summary send fails, the request ends in DONE, no generic
\* failure message is sent, the send is made once only, and the rows of the
\* request stay as they are.
C17_SummaryFailureSwallowed ==
  /\ [](\A r \in Req :
          SummaryFailed(r) =>
            /\ pc[r] = "done"
            /\ ~Issued(r, "failure")
            /\ Len(SentOf(r, "summary")) = 1
            /\ Len(CallsOf(r, "send_telegram_message")) = 1)
  /\ [][\A r \in Req : SummaryFailed(r)' => RowsOf(r)' = RowsOf(r)]_vars

\* C17 witness: a finished request with its row appended and its summary
\* send failed.
C17_Witness ==
  \E r \in Req :
    /\ SummaryFailed(r)
    /\ pc[r] = "done"
    /\ Len(RowsOf(r)) = 1

\* The whitespace of the text is whitespace of JSON only.
JsonWhitespaceOnly(text) == \A i \in DOMAIN text : text[i] # WSX

\* C18 (as claimed): for a {category, memo} object wrapped in whitespace,
\* ``` and ```json markers, the enricher returns what it returns for the bare
\* object: the object itself, not the fallback.
C18_AnyWhitespaceStripped ==
  probe.applied =>
    /\ probe.out = probe.out_bare
    /\ probe.out = probe.bare[1]
    /\ probe.out # FallbackInsights

\* C18 (amended): the same, for wrappers whose whitespace is spaces, tabs,
\* carriage returns and line feeds.
C18_WrappersStripped ==
  (probe.applied /\ JsonWhitespaceOnly(probe.text)) =>
    /\ probe.out = probe.out_bare
    /\ probe.out = probe.bare[1]
    /\ probe.out # FallbackInsights

\* C18 witness: the enricher has answered for a text with a ```json marker,
\* whitespace and a closing ``` around the object.
C18_Witness ==
  /\ probe.applied
  /\ probe.text = <<FENCE, JSONW, WS, GoodInsights, WS, FENCE>>
  /\ probe.out = GoodInsights

\* C19: the failure message and the results exclude each other: a request
\* for which the generic failure message was issued has no row and no
\* summary, whichever step raised, and a request with a row or a summary has
\* no failure message.
\* No step adds a row or a summary once the failure message was issued.
C19_FailureExcludesResults ==
  /\ [](\A r \in Req :
        /\ Issued(r, "failure") =>
             /\ ~HasRow(r)
             /\ ~Issued(r, "summary")
             /\ ~Called(r, "log_to_google_sheet")
             /\ pc[r] \in FailureStates
        /\ (HasRow(r) \/ Issued(r, "summary")) =>
             /\ ~Issued(r, "failure")
             /\ pc[r] \in {"persisted", "notifying", "done"})
  /\ [][\A r \in Req :
          (HasRow(r)' \/ Issued(r, "summary")') => ~Issued(r, "failure")]_vars

\* C19 witness: one request failed in the merge after a successful
\* extraction, another has its row and its summary.
C19_Witness ==
  \E r, q \in Req :
    /\ Issued(r, "failure") /\ receipt_data[r] # NoValue
    /\ pc[r] \in ErrorStates
    /\ HasRow(q) /\ Issued(q, "summary") /\ pc[q] = "done"

\* A send of the given kind failed for the request.
SendFailed(r, kind) ==
  \E k \in DOMAIN sent :
    sent[k].req = r /\ sent[k].kind = kind /\ sent[k].status = "failed"

\* C20: when the acknowledgement send fails, the error leaves the handler
\* before the try: the request has no other call, no failure message, no row
\* and no summary; when the send of the generic failure message fails, the
\* error leaves the handler too.
\* After either error nothing more is done for the request.
C20_SendErrorsLeaveHandler ==
  /\ [](\A r \in Req :
        /\ SendFailed(r, "ack") =>
             /\ pc[r] = "ack_raised"
             /\ calls[r] = <<Call("reply_ack", NoValue)>>
             /\ MessagesOf(r) = SentOf(r, "ack")
             /\ ~HasRow(r)
             /\ receipt_data[r] = NoValue /\ insights[r] = NoValue
             /\ final_data[r] = NoValue
        /\ pc[r] = "ack_raised" => SendFailed(r, "ack")
        /\ SendFailed(r, "failure") =>
             /\ pc[r] = "error_raised"
             /\ Len(SentOf(r, "failure")) = 1
             /\ calls[r][Len(calls[r])].op = "reply_failure"
        /\ pc[r] = "error_raised" => SendFailed(r, "failure"))
  /\ [][\A r \in Req :
          pc[r] \in {"ack_raised", "error_raised"} =>
            RequestView(r)' = RequestView(r)]_vars

\* C20 witness: one request whose acknowledgement send failed, one whose
\* failure-message send failed.
C20_Witness ==
  \E r, q \in Req :
    /\ SendFailed(r, "ack") /\ pc[r] = "ack_raised"
    /\ SendFailed(q, "failure") /\ pc[q] = "error_raised"

====
